---- MODULE Spec2Model ----
(***************************************************************************)
(* Model of the browser client src/frontend/app.js (rd_assistant).         *)
(*                                                                         *)
(* app.js holds two entry points.  Lines 1-225 are the page index.html     *)
(* loads (settings, avatars, onSend with the isLoading guard).  Lines      *)
(* 227-283 are a variant entry point: it declares `let sessionId` and the  *)
(* functions initSession/loadVisualization again and wires a #chat-form    *)
(* and a #chat element.  Two top-level `let sessionId` cannot live in one  *)
(* realm, so a document runs one entry point or the other: the variable    *)
(* `page` says which, and is fixed when the document is created.           *)
(*                                                                         *)
(* JavaScript is run-to-completion: a handler, or the continuation of an   *)
(* await, is one atomic step.  Each action below is one such step.         *)
(* User events are delivered after DOMContentLoaded.                       *)
(*                                                                         *)
(* Text is a sequence of tokens.  A token is one character, or a piece of  *)
(* text that holds none of the characters * backquote newline " \      *)
(* (a key, a tag), which no substitution of renderMarkdown and no escape   *)
(* of JSON.stringify can split.                                            *)
(*                                                                         *)
(* Not modelled (presentation only): scroll positions, focus, the          *)
(* textarea height, message timestamps, the settings overlay, and the     *)
(* graph mermaid draws from the diagram text.                              *)
(***************************************************************************)
EXTENDS Integers, Sequences, FiniteSets, TLC

(***************************************************************************)
(* Bounds of the model.                                                    *)
(***************************************************************************)
MaxTurns == 2

MaxUploads == 1

\* The longest text of the texts rendered (SpecMarkdown).
MaxTextLen == 7

(***************************************************************************)
(* JavaScript values.                                                      *)
(***************************************************************************)
Null == "<null>"

Undefined == [t |-> "undefined"]

JNull == [t |-> "null"]

Str(s) == [t |-> "str", s |-> s]

Num(n) == [t |-> "num", n |-> n]

\* An object literal: kv is the sequence of its <<key, value>> properties.
Obj(kv) == [t |-> "obj", kv |-> kv]

\* The outcome of an expression that throws a TypeError.
Thrown == [t |-> "thrown"]

HasKey(v, k) == v.t = "obj" /\ \E i \in 1..Len(v.kv) : v.kv[i][1] = k

\* v.k : a TypeError on null and undefined, undefined when v has no such
\* property.
Get(v, k) ==
  IF v.t \in {"null", "undefined", "thrown"} THEN Thrown
  ELSE IF HasKey(v, k)
       THEN v.kv[CHOOSE i \in 1..Len(v.kv) : v.kv[i][1] = k][2]
       ELSE Undefined

\* ToBoolean.
Truthy(v) ==
  CASE v.t = "obj" -> TRUE
    [] v.t = "str" -> v.s # <<>>
    [] v.t = "num" -> v.n # 0
    [] OTHER -> FALSE

(***************************************************************************)
(* Text helpers.                                                           *)
(***************************************************************************)
Whitespace == {" ", "\n"}

\* The token of the backquote character (a string literal cannot hold one).
Backtick == "[backquote]"

RECURSIVE TrimStart(_)
TrimStart(s) ==
  IF s # <<>> /\ Head(s) \in Whitespace THEN TrimStart(Tail(s)) ELSE s

RECURSIVE TrimEnd(_)
TrimEnd(s) ==
  IF s # <<>> /\ s[Len(s)] \in Whitespace
  THEN TrimEnd(SubSeq(s, 1, Len(s) - 1))
  ELSE s

\* Mutant of Trim: the handler reads input.value without .trim().
Untrimmed(s) == s

\* String.prototype.trim
Trim(s) == TrimEnd(TrimStart(s))

\* Does the delimiter d (a sequence of tokens) stand at position i of s?
At(s, i, d) ==
  /\ i >= 1
  /\ i + Len(d) - 1 <= Len(s)
  /\ SubSeq(s, i, i + Len(d) - 1) = d

\* The least j >= from where d stands with s[from..j-1] free of the tokens
\* in stop, or 0 when there is none: where a lazy any-character run or a negated class
\* followed by d ends.
RECURSIVE FindClose(_, _, _, _)
FindClose(s, from, d, stop) ==
  IF from + Len(d) - 1 > Len(s) THEN 0
  ELSE IF At(s, from, d) THEN from
  ELSE IF s[from] \in stop THEN 0
  ELSE FindClose(s, from + 1, d, stop)

\* s.replace(/d(body)d/g, open $1 close), scanning from position i: body is
\* a lazy run of tokens outside stop, of at least minLen tokens.
RECURSIVE ReplaceSpans(_, _, _, _, _, _, _)
ReplaceSpans(s, i, d, stop, minLen, open, close) ==
  IF i > Len(s) THEN <<>>
  ELSE LET j == IF At(s, i, d)
                THEN FindClose(s, i + Len(d) + minLen, d, stop)
                ELSE 0
           bodyOk == j # 0 /\ \A k \in (i + Len(d))..(j - 1) : s[k] \notin stop
       IN IF bodyOk
          THEN <<open>> \o SubSeq(s, i + Len(d), j - 1) \o <<close>>
               \o ReplaceSpans(s, j + Len(d), d, stop, minLen, open, close)
          ELSE <<s[i]>> \o ReplaceSpans(s, i + 1, d, stop, minLen, open, close)

\* s.replace(/\n/g, '<br>')
RECURSIVE ReplaceNewlines(_)
ReplaceNewlines(s) ==
  IF s = <<>> THEN <<>>
  ELSE <<IF Head(s) = "\n" THEN "<br>" ELSE Head(s)>> \o ReplaceNewlines(Tail(s))

Bold(s) == ReplaceSpans(s, 1, <<"*", "*">>, {"\n"}, 0, "<strong>", "</strong>")

Italic(s) == ReplaceSpans(s, 1, <<"*">>, {"\n"}, 0, "<em>", "</em>")

InlineCode(s) ==
  ReplaceSpans(s, 1, <<Backtick>>, {Backtick}, 1, "<code>", "</code>")

\* Mutant of renderMarkdown: the italic substitution runs before the bold one.
renderMarkdownItalicFirst(text) ==
  ReplaceNewlines(InlineCode(Bold(Italic(text))))

\* renderMarkdown(text) for a string: bold, italic, inline code, newline.
renderMarkdown(text) == ReplaceNewlines(InlineCode(Italic(Bold(text))))

(***************************************************************************)
(* JSON.stringify                                                          *)
(***************************************************************************)
Digits == <<"1", "2", "3", "4", "5", "6", "7", "8", "9">>

NumText(n) == IF n = 0 THEN <<"0">> ELSE <<Digits[n]>>

RECURSIVE Escape(_)
Escape(s) ==
  IF s = <<>> THEN <<>>
  ELSE (CASE Head(s) = "\n" -> <<"\\", "n">>
          [] Head(s) = "\"" -> <<"\\", "\"">>
          [] Head(s) = "\\" -> <<"\\", "\\">>
          [] OTHER -> <<Head(s)>>) \o Escape(Tail(s))

Quote(s) == <<"\"">> \o Escape(s) \o <<"\"">>

RECURSIVE Stringify(_)
RECURSIVE StringifyProps(_, _, _)
\* The properties kv[i..] of an object, undefined ones left out; first says
\* whether none has been written yet.
StringifyProps(kv, i, first) ==
  IF i > Len(kv) THEN <<>>
  ELSE IF kv[i][2].t = "undefined" THEN StringifyProps(kv, i + 1, first)
  ELSE (IF first THEN <<>> ELSE <<",">>)
       \o Quote(<<kv[i][1]>>) \o <<":">> \o Stringify(kv[i][2])
       \o StringifyProps(kv, i + 1, FALSE)

Stringify(v) ==
  CASE v.t = "str" -> Quote(v.s)
    [] v.t = "num" -> NumText(v.n)
    [] v.t = "null" -> <<"null">>
    [] v.t = "obj" -> <<"{">> \o StringifyProps(v.kv, 1, TRUE) \o <<"}">>

(***************************************************************************)
(* Inputs: what the user types, what the server answers, which files the   *)
(* user picks.                                                             *)
(***************************************************************************)
\* The values the user gives the textarea: empty, blank, a text, and a text
\* with blanks around it.
Inputs == {<<>>, <<" ">>, <<"a">>, <<" ", "a", " ">>}

\* The texts given to renderMarkdown: every text of up to MaxTextLen tokens
\* over a letter and the three characters its patterns look for.
MarkdownAlphabet == {"*", "x", "\n", Backtick}

MarkdownTexts == UNION {[1..n -> MarkdownAlphabet] : n \in 0..MaxTextLen}

SessionIds == {"s1"}

\* Bodies POST /sessions/{id}/messages answers with.
ReplyHi ==
  Obj(<< <<"result", Obj(<< <<"response",
           Obj(<< <<"message", Str(<<"H", "i">>)>> >>)>> >>)>> >>)

ReplyFoo == Obj(<< <<"foo", Num(1)>> >>)

ReplyNoMessage == Obj(<< <<"result", Obj(<< <<"response", Obj(<<>>)>> >>)>> >>)

Replies == <<ReplyHi, ReplyFoo, ReplyNoMessage>>

\* Diagram texts GET /sessions/{id}/visualization answers with.
Diagrams == {"graph v1", "graph v2"}

MaxFileSize == 2 * 1024 * 1024

Files ==
  { [name |-> "exact.png", size |-> MaxFileSize],
    [name |-> "big.png", size |-> MaxFileSize + 1],
    [name |-> "small.png", size |-> 1024] }

\* FileReader.readAsDataURL: the file's content as a data: URL.
DataURL(file) == "data:" \o file.name

(***************************************************************************)
(* State.                                                                  *)
(***************************************************************************)
VARIABLES
  page,            \* "main" (lines 1-225) or "variant" (lines 227-283)
  loaded,          \* DOMContentLoaded has been dispatched
  sessionId,       \* let sessionId
  isDarkMode,      \* let isDarkMode
  isLoading,       \* let isLoading
  customImages,    \* let customImages = { userAvatar, botAvatar }
  localStorage,    \* the keys chatCustomImages and chatTheme
  bodyClass,       \* document.body.className
  themeToggle,     \* the icon in #themeToggle
  avatarPreview,   \* what #userAvatarPreview and #botAvatarPreview show
  input,           \* #message-input .value
  sendButtonDisabled, \* #sendButton .disabled
  messagesArea,    \* children of #messagesArea, in document order
  chat,            \* children of #chat (variant), in document order
  diagram,         \* #diagram .textContent
  issued,          \* how many fetches of each kind have been issued
  pending,         \* the fetches in flight
  readers,         \* FileReaders still reading
  uploads,         \* number of reads started
  last             \* the handler that ran last, and what it did

chatVars ==
  <<sessionId, isLoading, input, sendButtonDisabled, messagesArea, chat,
    diagram, issued, pending>>

settingsVars ==
  <<isDarkMode, customImages, localStorage, bodyClass, themeToggle,
    avatarPreview, readers, uploads>>

vars == <<page, loaded, chatVars, settingsVars, last>>

(***************************************************************************)
(* Settings: loadSettings, saveSettings and what they store.               *)
(***************************************************************************)
NoImages == [userAvatar |-> Null, botAvatar |-> Null]

ImageValue(ref) == IF ref = Null THEN JNull ELSE Str(<<ref>>)

\* JSON.stringify(customImages)
StringifyImages(images) ==
  Stringify(Obj(<< <<"userAvatar", ImageValue(images.userAvatar)>>,
                   <<"botAvatar", ImageValue(images.botAvatar)>> >>))

\* The value that starts at token i of a stored snapshot, null or a quoted
\* string, as <<reference, index of the token after it>>.
ParseValue(text, i) ==
  IF text[i] = "null" THEN <<Null, i + 1>> ELSE <<text[i + 1], i + 3>>

\* JSON.parse of a snapshot saveSettings stored:
\* {"userAvatar":<value>,"botAvatar":<value>}
ParseImages(text) ==
  LET user == ParseValue(text, 6)
      bot == ParseValue(text, user[2] + 5)
  IN [userAvatar |-> user[1], botAvatar |-> bot[1]]

ThemeName(dark) == IF dark THEN "dark" ELSE "light"

\* Mutant of saveSettings: the theme key is written as 'dark' whatever the
\* theme in memory.
saveSettingsAlwaysDark(images, dark) ==
  [chatCustomImages |-> StringifyImages(images), chatTheme |-> "dark"]

\* What saveSettings leaves in localStorage: both keys, written anew.
saveSettings(images, dark) ==
  [chatCustomImages |-> StringifyImages(images), chatTheme |-> ThemeName(dark)]

\* What an earlier life of the page can have left in localStorage.
NothingStored == [chatCustomImages |-> Null, chatTheme |-> Null]

EarlierStorage ==
  { NothingStored,
    saveSettings([userAvatar |-> "data:small.png", botAvatar |-> Null], FALSE) }

\* The toggle button's icon for a theme.
ThemeIcon(dark) == IF dark THEN "sun" ELSE "moon"

\* What a handler did, for the step that ran it: its name, whether it warned
\* the user (alert), whether it called saveSettings, and, for toggleTheme,
\* the theme in memory and in storage before each of the latest toggleTheme
\* calls in a row (the two latest at most).
\* calls in a row (the two latest at most); arg is the value the step was
\* about (the reply of a send, the size of a file picked).
Did(op) ==
  [op |-> op, alert |-> FALSE, saved |-> FALSE, trail |-> <<>>,
   arg |-> Undefined]

Saved(op) == [Did(op) EXCEPT !.saved = TRUE]

ThemeSnapshot == [isDarkMode |-> isDarkMode, chatTheme |-> localStorage.chatTheme]

LastTwo(s) == IF Len(s) > 2 THEN SubSeq(s, Len(s) - 1, Len(s)) ELSE s

(***************************************************************************)
(* Network: fetch calls and the requests in flight.                        *)
(***************************************************************************)
\* A fetch in flight: its kind ("session", "send", "diagram"), the session id
\* in its URL, the message text in its body, the chain that awaits it ("init"
\* or "turn"), and its place n in the order of issue.
Request(kind, sid, text, from) ==
  [n |-> issued.session + issued.send + issued.diagram + 1,
   kind |-> kind, sid |-> sid, text |-> text, from |-> from]

\* fetch(...): req is issued; the requests in settled have just settled.
Fetch(req, settled) ==
  /\ issued' = [issued EXCEPT ![req.kind] = @ + 1]
  /\ pending' = (pending \ settled) \cup {req}

Settle(req) ==
  /\ pending' = pending \ {req}
  /\ UNCHANGED issued

\* loadVisualization() up to its first await: the fetch, for the session id
\* the variable holds at the call.
FetchDiagram(sid, from, settled) ==
  Fetch(Request("diagram", sid, <<>>, from), settled)

PendingOf(kind) == {req \in pending : req.kind = kind}

(***************************************************************************)
(* Messages.                                                               *)
(***************************************************************************)
Greeting == <<"Hello! Ask me anything.">>

\* The avatar markup of a message: the custom image, or the drawn default.
AvatarOf(type) ==
  IF type = "user" THEN customImages.userAvatar ELSE customImages.botAvatar

\* The div addMessage(content, type) appends.
MessageDiv(content, type) ==
  [type |-> type, content |-> content, html |-> renderMarkdown(content),
   avatar |-> AvatarOf(type)]

\* The div startLoading appends (id loadingMessage).
LoadingDiv ==
  [type |-> "loading", content |-> <<>>, html |-> <<"Thinking...">>,
   avatar |-> AvatarOf("bot")]

\* Mutant of RemoveLoading: the placeholder is left in the list.
RemoveNothing(area) == area

\* loadingMessage.remove(): the first element with that id leaves the list.
RECURSIVE RemoveLoading(_)
RemoveLoading(area) ==
  IF area = <<>> THEN <<>>
  ELSE IF Head(area).type = "loading" THEN Tail(area)
  ELSE <<Head(area)>> \o RemoveLoading(Tail(area))

\* Mutant of ReplyContent: the reply is always shown serialized.
ReplyAlwaysSerialized(resp) == Str(Stringify(resp))

\* The argument the handlers give addMessage / appendMessage for a reply.
ReplyContent(resp) ==
  LET result == Get(resp, "result")
      response == Get(result, "response")
  IN IF result.t = "thrown" THEN Thrown
     ELSE IF Truthy(result) /\ Truthy(response)
          THEN Get(response, "message")
          ELSE Str(Stringify(resp))

\* div.textContent = value
TextContent(value) ==
  CASE value.t = "str" -> value.s
    [] value.t = "num" -> NumText(value.n)
    [] OTHER -> <<>>

(***************************************************************************)
(* The document as created: index.html as parsed, the script's top-level   *)
(* declarations run, DOMContentLoaded not yet dispatched.                  *)
(***************************************************************************)
Init ==
  /\ page \in {"main", "variant"}
  /\ loaded = FALSE
  /\ sessionId = Null
  /\ isDarkMode = TRUE
  /\ isLoading = FALSE
  /\ customImages = NoImages
  /\ localStorage \in (IF page = "main" THEN EarlierStorage ELSE {NothingStored})
  /\ bodyClass = "dark"
  /\ themeToggle = "sun"
  /\ avatarPreview = [user |-> Null, bot |-> Null]
  /\ input = <<>>
  /\ sendButtonDisabled = FALSE
  /\ messagesArea = <<>>
  /\ chat = <<>>
  /\ diagram = ""
  /\ issued = [session |-> 0, send |-> 0, diagram |-> 0]
  /\ pending = {}
  /\ readers = {}
  /\ uploads = 0
  /\ last = Did("none")

(***************************************************************************)
(* Startup.                                                                *)
(***************************************************************************)
\* loadSettings(): customImages and isDarkMode as read from localStorage.
LoadedImages ==
  IF localStorage.chatCustomImages # Null
  THEN ParseImages(localStorage.chatCustomImages)
  ELSE customImages

\* Mutant of LoadedDark: loadSettings does not read chatTheme.
LoadedDarkIgnoresStorage == isDarkMode

LoadedDark ==
  IF localStorage.chatTheme # Null THEN localStorage.chatTheme = "dark"
  ELSE isDarkMode

loadSettings ==
  /\ customImages' = LoadedImages
  /\ isDarkMode' = LoadedDark
  /\ bodyClass' = IF localStorage.chatTheme # Null THEN ThemeName(LoadedDark)
                  ELSE bodyClass
  /\ avatarPreview' = [user |-> LoadedImages.userAvatar,
                       bot |-> LoadedImages.botAvatar]
  /\ UNCHANGED <<localStorage, themeToggle, readers, uploads>>

\* Mutant of initSession: startup creates the session twice.
initSessionTwice ==
  /\ issued' = [issued EXCEPT !.session = @ + 2]
  /\ pending' = pending \cup
       { Request("session", Null, <<>>, "init"),
         [Request("session", Null, <<>>, "init") EXCEPT !.n = @ + 1] }

\* initSession() up to its first await: POST /sessions.
initSession == Fetch(Request("session", Null, <<>>, "init"), {})

\* The DOMContentLoaded listener of the entry point the document runs.
DOMContentLoaded ==
  /\ ~loaded
  /\ loaded' = TRUE
  /\ IF page = "main" THEN loadSettings ELSE UNCHANGED settingsVars
  /\ initSession
  /\ last' = Did("DOMContentLoaded")
  /\ UNCHANGED <<page, sessionId, isLoading, input, sendButtonDisabled,
                 messagesArea, chat, diagram>>

\* POST /sessions resolves with { session_id: sid }: initSession records it
\* and calls loadVisualization().
SessionResolves(i, sid) ==
  /\ i \in PendingOf("session")
  /\ sessionId' = sid
  /\ FetchDiagram(sid, "init", {i})
  /\ last' = Did("sessionResolved")
  /\ UNCHANGED <<page, loaded, isLoading, input, sendButtonDisabled,
                 messagesArea, chat, diagram, settingsVars>>

\* Mutant of FetchRejects: a failed fetch makes the page forget its session.
FetchRejectsForgetsSession(i) ==
  /\ i \in pending
  /\ Settle(i)
  /\ sessionId' = Null
  /\ last' = Did(i.kind \o "Rejected")
  /\ UNCHANGED <<page, loaded, isLoading, input, sendButtonDisabled,
                 messagesArea, chat, diagram, settingsVars>>

\* A fetch rejects (or its body is no JSON): the awaiting function ends
\* there, and nothing catches the rejection.
FetchRejects(i) ==
  /\ i \in pending
  /\ Settle(i)
  /\ last' = Did(i.kind \o "Rejected")
  /\ UNCHANGED <<page, loaded, sessionId, isLoading, input,
                 sendButtonDisabled, messagesArea, chat, diagram, settingsVars>>

\* Mutant of DiagramText: only the first response is shown.
DiagramKept(current, text) == IF current = "" THEN text ELSE current

\* Mutant of DiagramText: a response is added to what is shown.
DiagramMerged(current, text) == current \o text

\* diagramEl.textContent = data.diagram, with current what the element showed.
DiagramText(current, text) == text

\* GET .../visualization resolves with { diagram: text }: loadVisualization
\* shows it.  Back in the main page's initSession, addInitialMessage() runs.
\* The step notes the response, the place n of its request in the order of
\* issue and, when the step before it was a diagram response too, the place
\* of that one's request (before).
DiagramResolves(i, text) ==
  /\ i \in PendingOf("diagram")
  /\ Settle(i)
  /\ diagram' = DiagramText(diagram, text)
  /\ messagesArea' =
       IF page = "main" /\ i.from = "init"
       THEN Append(messagesArea, MessageDiv(Greeting, "bot"))
       ELSE messagesArea
  /\ last' = [Did("diagramResolved") EXCEPT
                !.arg = [t |-> "diagram", text |-> text, n |-> i.n,
                         before |-> IF last.op = "diagramResolved"
                                    THEN last.arg.n ELSE 0]]
  /\ UNCHANGED <<page, loaded, sessionId, isLoading, input,
                 sendButtonDisabled, chat, settingsVars>>

(***************************************************************************)
(* A turn in the main page: onSend, startLoading, stopLoading.             *)
(***************************************************************************)
\* The user edits the textarea.
TypeInput(text) ==
  /\ loaded
  /\ text # input
  /\ input' = text
  /\ last' = Did("input")
  /\ UNCHANGED <<page, loaded, sessionId, isLoading, sendButtonDisabled,
                 messagesArea, chat, diagram, issued, pending, settingsVars>>

\* Mutant of startLoading: no placeholder is appended.
startLoadingNoPlaceholder(area) ==
  /\ isLoading' = TRUE
  /\ messagesArea' = area
  /\ sendButtonDisabled' = TRUE

\* startLoading(), with area the children of #messagesArea at the call.
startLoading(area) ==
  /\ isLoading' = TRUE
  /\ messagesArea' = Append(area, LoadingDiv)
  /\ sendButtonDisabled' = TRUE

\* Mutant of stopLoading: the send button is not enabled again.
stopLoadingButtonStaysDisabled ==
  /\ isLoading' = FALSE
  /\ UNCHANGED sendButtonDisabled

\* stopLoading(), but for the placeholder it removes (RemoveLoading).
stopLoading ==
  /\ isLoading' = FALSE
  /\ sendButtonDisabled' = FALSE

\* Mutant of onSendReturnsEarly: the isLoading test is missing.
onSendIgnoresLoading(text) == text = <<>>

\* if (!text || isLoading) return;
onSendReturnsEarly(text) == text = <<>> \/ isLoading

\* onSend(): the send button's click, or Enter in the textarea.
onSend ==
  /\ page = "main"
  /\ loaded
  /\ LET text == Trim(input)
     IN IF onSendReturnsEarly(text)
        THEN UNCHANGED chatVars
        ELSE /\ issued.send < MaxTurns
             /\ input' = <<>>
             /\ startLoading(Append(messagesArea, MessageDiv(text, "user")))
             /\ Fetch(Request("send", sessionId, text, "turn"), {})
             /\ UNCHANGED <<sessionId, chat, diagram>>
  /\ last' = Did("onSend")
  /\ UNCHANGED <<page, loaded, settingsVars>>

\* The .then callback of onSend, for the reply resp: stopLoading(), then
\* addMessage of the reply, then loadVisualization().  addMessage of a value
\* that is no string throws in renderMarkdown (value.replace is not a
\* function), which ends the callback before anything is appended.
onSendThen(i, resp) ==
  LET content == ReplyContent(resp)
      stopped == RemoveLoading(messagesArea)
  IN /\ stopLoading
     /\ IF content.t = "str"
        THEN /\ messagesArea' = Append(stopped, MessageDiv(content.s, "bot"))
             /\ FetchDiagram(sessionId, "turn", {i})
        ELSE /\ messagesArea' = stopped
             /\ Settle(i)
     /\ UNCHANGED <<sessionId, input, chat, diagram>>

(***************************************************************************)
(* A turn in the variant page: the submit listener of #chat-form.          *)
(***************************************************************************)
appendMessage(role, text) == chat' = Append(chat, [role |-> role, text |-> text])

submit ==
  /\ page = "variant"
  /\ loaded
  /\ LET text == Trim(input)
     IN IF text = <<>>
        THEN UNCHANGED chatVars
        ELSE /\ issued.send < MaxTurns
             /\ appendMessage("user", text)
             /\ input' = <<>>
             /\ Fetch(Request("send", sessionId, text, "turn"), {})
             /\ UNCHANGED <<sessionId, isLoading, sendButtonDisabled,
                            messagesArea, diagram>>
  /\ last' = Did("submit")
  /\ UNCHANGED <<page, loaded, settingsVars>>

\* The listener after `await sendMessage(text)`, for the reply resp.
submitThen(i, resp) ==
  LET content == ReplyContent(resp)
  IN /\ IF content.t = "thrown"
        THEN /\ Settle(i)
             /\ UNCHANGED chat
        ELSE /\ appendMessage("ai", TextContent(content))
             /\ FetchDiagram(sessionId, "turn", {i})
     /\ UNCHANGED <<sessionId, isLoading, input, sendButtonDisabled,
                    messagesArea, diagram>>

\* POST .../messages resolves with the body resp.
SendResolves(i, resp) ==
  /\ i \in PendingOf("send")
  /\ IF page = "main" THEN onSendThen(i, resp) ELSE submitThen(i, resp)
  /\ last' = [Did("sendResolved") EXCEPT !.arg = resp]
  /\ UNCHANGED <<page, loaded, settingsVars>>

(***************************************************************************)
(* Settings handlers of the main page.                                     *)
(***************************************************************************)
NoFile == [name |-> "", size |-> 0]

\* Mutant of FileTooBig: >= for >.
FileAtLeastLimit(file) == file.size >= MaxFileSize

\* if (file.size > 2 * 1024 * 1024) { alert('File too big'); return; }
FileTooBig(file) == file.size > MaxFileSize

AvatarKey(kind) == IF kind = "user" THEN "userAvatar" ELSE "botAvatar"

\* handleUserAvatarUpload(e) / handleBotAvatarUpload(e) up to the await: the
\* change event of the file input, with the file picked (NoFile: none).
handleAvatarUpload(kind, file) ==
  /\ page = "main"
  /\ loaded
  /\ IF file = NoFile
     THEN /\ last' = Did("upload")
          /\ UNCHANGED <<readers, uploads>>
     ELSE IF FileTooBig(file)
     THEN /\ last' = [Did("upload") EXCEPT !.alert = TRUE,
                                            !.arg = Num(file.size)]
          /\ UNCHANGED <<readers, uploads>>
     ELSE /\ uploads < MaxUploads
          /\ uploads' = uploads + 1
          /\ readers' = readers \cup
               {[id |-> uploads + 1, kind |-> kind, file |-> file]}
          /\ last' = [Did("upload") EXCEPT !.arg = Num(file.size)]
  /\ UNCHANGED <<page, loaded, chatVars, isDarkMode, customImages,
                 localStorage, bodyClass, themeToggle, avatarPreview>>

handleUserAvatarUpload(file) == handleAvatarUpload("user", file)

handleBotAvatarUpload(file) == handleAvatarUpload("bot", file)

\* FileReader onload: the upload handler goes on after its await, stores the
\* data URL, updates the preview and saves; the step notes the kind stored.
ReadLoaded(r) ==
  /\ r \in readers
  /\ readers' = readers \ {r}
  /\ customImages' = [customImages EXCEPT ![AvatarKey(r.kind)] = DataURL(r.file)]
  /\ avatarPreview' = [avatarPreview EXCEPT ![r.kind] = DataURL(r.file)]
  /\ localStorage' = saveSettings(customImages', isDarkMode)
  /\ last' = [Saved("readLoaded") EXCEPT !.arg = Str(<<r.kind>>)]
  /\ UNCHANGED <<page, loaded, chatVars, isDarkMode, bodyClass, themeToggle,
                 uploads>>

\* FileReader onerror: the handler's await rejects and it ends there.
ReadFailed(r) ==
  /\ r \in readers
  /\ readers' = readers \ {r}
  /\ last' = Did("readFailed")
  /\ UNCHANGED <<page, loaded, chatVars, isDarkMode, customImages,
                 localStorage, bodyClass, themeToggle, avatarPreview, uploads>>

\* Mutant of resetAvatar: both avatars are reset.
resetBothAvatars(kind) ==
  /\ page = "main"
  /\ loaded
  /\ customImages' = NoImages
  /\ avatarPreview' = [user |-> Null, bot |-> Null]
  /\ localStorage' = saveSettings(customImages', isDarkMode)
  /\ last' = [Saved("reset") EXCEPT !.arg = Str(<<kind>>)]
  /\ UNCHANGED <<page, loaded, chatVars, isDarkMode, bodyClass, themeToggle,
                 readers, uploads>>

\* resetUserAvatar() / resetBotAvatar(); the step notes the kind reset.
resetAvatar(kind) ==
  /\ page = "main"
  /\ loaded
  /\ customImages' = [customImages EXCEPT ![AvatarKey(kind)] = Null]
  /\ avatarPreview' = [avatarPreview EXCEPT ![kind] = Null]
  /\ localStorage' = saveSettings(customImages', isDarkMode)
  /\ last' = [Saved("reset") EXCEPT !.arg = Str(<<kind>>)]
  /\ UNCHANGED <<page, loaded, chatVars, isDarkMode, bodyClass, themeToggle,
                 readers, uploads>>

resetUserAvatar == resetAvatar("user")

resetBotAvatar == resetAvatar("bot")

\* Mutant of Toggled: the theme is set to light, not flipped.
ToggledToLight(dark) == FALSE

\* isDarkMode = !isDarkMode
Toggled(dark) == ~dark

\* toggleTheme()
toggleTheme ==
  /\ page = "main"
  /\ loaded
  /\ isDarkMode' = Toggled(isDarkMode)
  /\ bodyClass' = ThemeName(isDarkMode')
  /\ localStorage' = saveSettings(customImages, isDarkMode')
  /\ themeToggle' = ThemeIcon(isDarkMode')
  /\ last' = [Saved("toggleTheme") EXCEPT
                !.trail = LastTwo(Append(last.trail, ThemeSnapshot))]
  /\ UNCHANGED <<page, loaded, chatVars, customImages, avatarPreview, readers,
                 uploads>>

\* The user reloads the page: a new document, whose script starts from its
\* top-level declarations; localStorage outlives the document, the fetches
\* and file reads of the old document do not.  The step notes the settings
\* the old document had in memory.
Reload ==
  /\ loaded
  /\ loaded' = FALSE
  /\ sessionId' = Null
  /\ isDarkMode' = TRUE
  /\ isLoading' = FALSE
  /\ customImages' = NoImages
  /\ bodyClass' = "dark"
  /\ themeToggle' = "sun"
  /\ avatarPreview' = [user |-> Null, bot |-> Null]
  /\ input' = <<>>
  /\ sendButtonDisabled' = FALSE
  /\ messagesArea' = <<>>
  /\ chat' = <<>>
  /\ diagram' = ""
  /\ issued' = [session |-> 0, send |-> 0, diagram |-> 0]
  /\ pending' = {}
  /\ readers' = {}
  /\ uploads' = 0
  /\ last' = [Did("reload") EXCEPT
                !.arg = [t |-> "settings", customImages |-> customImages,
                         isDarkMode |-> isDarkMode]]
  /\ UNCHANGED <<page, localStorage>>

\* The main page after startup (session recorded, first diagram shown,
\* greeting appended, nothing stored), with a text typed into the textarea.
InitMarkdown ==
  /\ page = "main"
  /\ loaded = TRUE
  /\ sessionId \in SessionIds
  /\ isDarkMode = TRUE
  /\ isLoading = FALSE
  /\ customImages = NoImages
  /\ localStorage = NothingStored
  /\ bodyClass = "dark"
  /\ themeToggle = "sun"
  /\ avatarPreview = [user |-> Null, bot |-> Null]
  /\ input \in MarkdownTexts
  /\ sendButtonDisabled = FALSE
  /\ messagesArea = <<MessageDiv(Greeting, "bot")>>
  /\ chat = <<>>
  /\ diagram = "graph v1"
  /\ issued = [session |-> 1, send |-> 0, diagram |-> 1]
  /\ pending = {}
  /\ readers = {}
  /\ uploads = 0
  /\ last = Did("input")

\* A turn: addMessage renders the user's text, then the reply.
MarkdownNext ==
  \/ onSend
  \/ \E i \in pending, r \in 1..Len(Replies) : SendResolves(i, Replies[r])

(***************************************************************************)
(* Specifications.                                                         *)
(***************************************************************************)
ChatNext ==
  \/ DOMContentLoaded
  \/ \E i \in pending, sid \in SessionIds : SessionResolves(i, sid)
  \/ \E i \in pending : FetchRejects(i)
  \/ \E i \in pending, text \in Diagrams : DiagramResolves(i, text)
  \/ \E text \in Inputs : TypeInput(text)
  \/ onSend
  \/ submit
  \/ \E i \in pending, r \in 1..Len(Replies) : SendResolves(i, Replies[r])

SettingsNext ==
  \/ \E file \in Files \cup {NoFile} : handleUserAvatarUpload(file)
  \/ \E file \in Files \cup {NoFile} : handleBotAvatarUpload(file)
  \/ \E r \in readers : ReadLoaded(r)
  \/ \E r \in readers : ReadFailed(r)
  \/ resetUserAvatar
  \/ resetBotAvatar
  \/ toggleTheme
  \/ Reload

\* The conversation when no fetch fails: every call that settles resolves.
ResolvingNext ==
  \/ DOMContentLoaded
  \/ \E i \in pending, sid \in SessionIds : SessionResolves(i, sid)
  \/ \E i \in pending, text \in Diagrams : DiagramResolves(i, text)
  \/ \E text \in Inputs : TypeInput(text)
  \/ onSend
  \/ submit
  \/ \E i \in pending, r \in 1..Len(Replies) : SendResolves(i, Replies[r])

\* One conversation (one text, one reply, one diagram, no failing fetch)
\* with the settings handlers at work beside it.
BothNext ==
  \/ DOMContentLoaded
  \/ \E i \in pending, sid \in SessionIds : SessionResolves(i, sid)
  \/ \E i \in pending : DiagramResolves(i, "graph v1")
  \/ TypeInput(<<"a">>)
  \/ onSend
  \/ submit
  \/ \E i \in pending : SendResolves(i, ReplyHi)
  \/ \E kind \in {"user", "bot"} : handleAvatarUpload(kind, [name |-> "small.png", size |-> 1024])
  \/ \E r \in readers : ReadLoaded(r)
  \/ resetUserAvatar
  \/ resetBotAvatar
  \/ toggleTheme

Next == ChatNext \/ SettingsNext

\* The whole page.
Spec == Init /\ [][Next]_vars

\* The conversation alone: the settings stay as loadSettings left them.
SpecChat == Init /\ [][ChatNext]_vars

\* The settings alone: after startup, only the settings handlers run.
SpecSettings == Init /\ [][DOMContentLoaded \/ SettingsNext]_vars

\* renderMarkdown over the texts of MarkdownTexts, as addMessage applies it.
SpecMarkdown == InitMarkdown /\ [][MarkdownNext]_vars

\* The conversation and the settings together, over few inputs.
SpecBoth == Init /\ [][BothNext]_vars

\* The conversation over a network whose every call resolves.
SpecChatResolving == Init /\ [][ResolvingNext]_vars

(***************************************************************************)
(* Properties.                                                             *)
(***************************************************************************)
IsBlank(text) == \A k \in 1..Len(text) : text[k] \in {" ", "\n"}

LastOf(seq) == seq[Len(seq)]

\* The string at resp.result.response.message, or none.
MessageString(resp) ==
  LET message == Get(Get(Get(resp, "result"), "response"), "message")
  IN IF message.t = "str" THEN message ELSE Undefined

\* C1: in the main page at most one send call is in flight, and an onSend
\* made while a send is in flight issues no fetch, appends no message and
\* leaves the input and isLoading as they were.
C1_SingleFlight ==
  [][ /\ page = "main" => Cardinality({r \in pending' : r.kind = "send"}) <= 1
      /\ (last'.op = "onSend" /\ PendingOf("send") # {})
           => UNCHANGED <<issued, pending, messagesArea, input, isLoading>>
    ]_vars

\* A send is in flight, the user has typed a text, and onSend has just
\* returned without taking it.
C1_Witness ==
  /\ last.op = "onSend"
  /\ PendingOf("send") # {}
  /\ Trim(input) # <<>>
  /\ issued.send < MaxTurns

\* C2: a submission (onSend, or the variant's submit) of an input that is
\* empty or all white space issues no fetch, appends no message to either
\* history and leaves isLoading as it was, whatever the state.
C2_BlankSubmissionIgnored ==
  [][ (last'.op \in {"onSend", "submit"} /\ IsBlank(input))
        => UNCHANGED <<issued, pending, messagesArea, chat, isLoading>>
    ]_vars

\* A blank, non-empty input has just been submitted and is still there.
C2_Witness ==
  /\ last.op \in {"onSend", "submit"}
  /\ input = <<" ">>
  /\ issued.send = 0
  /\ ~isLoading

\* C3: one POST /sessions is issued, at startup, and no other ever.
C3_OneSessionCall == issued.session = (IF loaded THEN 1 ELSE 0)

\* Turns have been made, some answered, and still one session was created.
C3_Witness ==
  /\ issued.session = 1
  /\ issued.send = MaxTurns
  /\ last.op = "sendResolved"
  /\ sessionId # Null

\* C4 (as claimed): every send and every diagram fetch is issued with the
\* session id already recorded.
C4_SessionBeforeRequests ==
  \A r \in pending : r.kind \in {"send", "diagram"} => r.sid # Null

\* C5: when a send resolves with a reply that holds a string at
\* result.response.message, the message appended is the assistant's and its
\* content is that string.
C5_RecognizedReply ==
  (last.op = "sendResolved" /\ MessageString(last.arg).t = "str")
    => IF page = "main"
       THEN /\ messagesArea # <<>>
            /\ LastOf(messagesArea).type = "bot"
            /\ LastOf(messagesArea).content = MessageString(last.arg).s
       ELSE /\ chat # <<>>
            /\ LastOf(chat).role = "ai"
            /\ LastOf(chat).text = MessageString(last.arg).s

\* The reply { result: { response: { message: "Hi" } } } has just been shown.
C5_Witness ==
  /\ last.op = "sendResolved"
  /\ last.arg = ReplyHi
  /\ page = "main"
  /\ LastOf(messagesArea).content = <<"H", "i">>

\* C6 (as claimed): when a send resolves with a reply that holds no
\* result.response.message, the message appended is the assistant's and its
\* content is the serialized reply.
C6_FallbackReply ==
  (last.op = "sendResolved" /\ MessageString(last.arg).t # "str")
    => IF page = "main"
       THEN /\ messagesArea # <<>>
            /\ LastOf(messagesArea).type = "bot"
            /\ LastOf(messagesArea).content = Stringify(last.arg)
       ELSE /\ chat # <<>>
            /\ LastOf(chat).role = "ai"
            /\ LastOf(chat).text = Stringify(last.arg)

\* C7: the send button is disabled exactly when isLoading is true.
C7_ButtonDisabledIffLoading == sendButtonDisabled <=> isLoading

\* A send has been answered and a second one is in flight.
C7_Witness ==
  /\ isLoading
  /\ sendButtonDisabled
  /\ issued.send = 2
  /\ Cardinality(PendingOf("send")) = 1

\* C8 (as claimed): once a send call has rejected, the page is no longer
\* loading, so that the next onSend with a text is taken.
C8_FailedTurnLeavesSending ==
  last.op = "sendRejected" => ~onSendReturnsEarly(<<"a">>)

\* C9: an upload with a file is refused (the alert) exactly when the file is
\* larger than 2 MiB; a refused upload leaves both avatar references, the
\* storage and the pending reads as they were and does not call saveSettings.
C9_UploadSizeLimit ==
  [][ (last'.op = "upload" /\ last'.arg.t = "num")
        => /\ last'.alert <=> (last'.arg.n > 2 * 1024 * 1024)
           /\ last'.alert =>
                /\ UNCHANGED <<customImages, localStorage, readers, uploads>>
                /\ ~last'.saved
           /\ ~last'.alert => uploads' = uploads + 1
    ]_vars

\* A file one byte over the limit has just been refused, with an avatar
\* stored and a file of exactly 2 MiB taken before.
C9_Witness ==
  /\ last.op = "upload"
  /\ last.alert
  /\ last.arg = Num(2 * 1024 * 1024 + 1)
  /\ customImages.userAvatar # Null
  /\ \/ \E r \in readers : r.file.size = 2 * 1024 * 1024
     \/ "data:exact.png" \in {customImages.userAvatar, customImages.botAvatar}

\* C10 (as claimed): after two toggleTheme calls in a row the theme in memory
\* and the stored chatTheme are what they were before the first.
C10_DoubleToggleRestores ==
  (last.op = "toggleTheme" /\ Len(last.trail) = 2)
    => /\ isDarkMode = last.trail[1].isDarkMode
       /\ localStorage.chatTheme = last.trail[1].chatTheme

\* C10 (amended): after two toggleTheme calls in a row the theme in memory is
\* what it was before the first, and the stored chatTheme names that theme.
C10_DoubleToggleRestoresMemory ==
  (last.op = "toggleTheme" /\ Len(last.trail) = 2)
    => /\ isDarkMode = last.trail[1].isDarkMode
       /\ localStorage.chatTheme =
            (IF last.trail[1].isDarkMode THEN "dark" ELSE "light")

\* Two toggles in a row, from a light theme that had been stored.
C10_Witness ==
  /\ last.op = "toggleTheme"
  /\ Len(last.trail) = 2
  /\ last.trail[1] = [isDarkMode |-> FALSE, chatTheme |-> "light"]
  /\ ~isDarkMode

\* C11: after every settings mutation that has completed (an avatar read
\* stored, an avatar reset, a theme toggle) the stored snapshot holds the
\* settings in memory in full: both avatar references and the theme.
C11_SnapshotIsWhole ==
  last.saved =>
    /\ localStorage.chatCustomImages # Null
    /\ ParseImages(localStorage.chatCustomImages) = customImages
    /\ localStorage.chatTheme = (IF isDarkMode THEN "dark" ELSE "light")

\* An avatar has just been stored, next to an avatar loaded from an earlier
\* page life, after the theme was toggled from light to dark.
C11_Witness ==
  /\ last.op = "readLoaded"
  /\ last.saved
  /\ customImages =
       [userAvatar |-> "data:small.png", botAvatar |-> "data:exact.png"]
  /\ isDarkMode
  /\ themeToggle = "sun"

\* C12: loadSettings on the page loaded after a reload gives the theme and
\* both avatar references the page had in memory before the reload; with
\* nothing stored, loadSettings gives the dark theme and no avatars.
C12_SettingsSurviveReload ==
  [][ (page = "main" /\ last'.op = "DOMContentLoaded")
        => /\ last.op = "reload"
                => /\ customImages' = last.arg.customImages
                   /\ isDarkMode' = last.arg.isDarkMode
           /\ localStorage = NothingStored
                => /\ customImages' = NoImages
                   /\ isDarkMode' = TRUE
    ]_vars

\* The page has been reloaded and loadSettings has run: the bot avatar
\* stored before the reload and the light theme toggled to are back.
C12_Witness ==
  /\ last.op = "DOMContentLoaded"
  /\ uploads = 0
  /\ customImages.botAvatar = "data:exact.png"
  /\ ~isDarkMode
  /\ localStorage.chatTheme = "light"

\* C13 (as claimed): a diagram fetch is issued in the step that records the
\* session and in each step in which a send resolves, one each, and in no
\* other step; so the fetches issued number one for the session recorded
\* plus one for each send resolved.
C13_DiagramRefreshCount ==
  [][ issued'.diagram =
        issued.diagram
          + (IF last'.op \in {"sessionResolved", "sendResolved"} THEN 1 ELSE 0)
    ]_vars

\* C15 (as claimed): the step in which a send resolves leaves no placeholder
\* in the history, appends one assistant message, issues one diagram fetch
\* and leaves the page not loading.
C15_ResolvedTurn ==
  [][ last'.op = "sendResolved"
        => /\ \A k \in 1..Len(messagesArea') : messagesArea'[k].type # "loading"
           /\ IF page = "main"
              THEN /\ Len(messagesArea') = Len(messagesArea) - 1 + 1
                   /\ LastOf(messagesArea').type = "bot"
              ELSE /\ Len(chat') = Len(chat) + 1
                   /\ LastOf(chat').role = "ai"
           /\ issued'.diagram = issued.diagram + 1
           /\ ~isLoading'
    ]_vars

\* C16 (as claimed): in the main page, once the session id is recorded and
\* the first diagram fetch is no longer in flight (resolved or not), the
\* history holds the greeting, once.
C16_GreetingOnSessionCreation ==
  (/\ page = "main"
   /\ sessionId # Null
   /\ ~\E r \in pending : r.kind = "diagram" /\ r.from = "init")
    => Cardinality({k \in 1..Len(messagesArea) :
                      /\ messagesArea[k].type = "bot"
                      /\ messagesArea[k].content = <<"Hello! Ask me anything.">>})
         = 1

\* The text c is the text s without the white space at its ends.
IsTrimOf(c, s) ==
  /\ c # <<>>
  /\ c[1] \notin {" ", "\n"}
  /\ c[Len(c)] \notin {" ", "\n"}
  /\ \E i \in 1..Len(s) :
       /\ i + Len(c) - 1 <= Len(s)
       /\ \A k \in 1..Len(s) :
            IF k >= i /\ k < i + Len(c)
            THEN s[k] = c[k - i + 1]
            ELSE s[k] \in {" ", "\n"}

\* C17: an onSend that is taken (not loading, a text left after trimming) is
\* one step that appends the user message with the trimmed text and then the
\* placeholder, empties the input, sets isLoading and issues the send with
\* that text; the history before it is kept.
C17_AcceptedSubmissionAtomic ==
  [][ (last'.op = "onSend" /\ ~isLoading /\ ~IsBlank(input))
        => /\ Len(messagesArea') = Len(messagesArea) + 2
           /\ SubSeq(messagesArea', 1, Len(messagesArea)) = messagesArea
           /\ messagesArea'[Len(messagesArea) + 1].type = "user"
           /\ IsTrimOf(messagesArea'[Len(messagesArea) + 1].content, input)
           /\ LastOf(messagesArea').type = "loading"
           /\ input' = <<>>
           /\ isLoading'
           /\ \E r \in pending' \ pending :
                /\ r.kind = "send"
                /\ IsTrimOf(r.text, input)
                /\ pending' = pending \cup {r}
    ]_vars

\* The second submission has just been taken: its message and the
\* placeholder end the history, the input is empty, the send is in flight.
C17_Witness ==
  /\ last.op = "onSend"
  /\ isLoading
  /\ input = <<>>
  /\ issued.send = 2
  /\ Len(messagesArea) >= 4
  /\ LastOf(messagesArea).type = "loading"
  /\ messagesArea[Len(messagesArea) - 1].type = "user"
  /\ messagesArea[Len(messagesArea) - 1].content = <<"a">>
  /\ \E r \in pending : r.kind = "send" /\ r.text = <<"a">>

\* C18: after a diagram fetch resolves, #diagram shows that response's text
\* and nothing else.
C18_AppliedWholesale ==
  last.op = "diagramResolved" => diagram = last.arg.text

\* The first diagram fetch resolves while the second turn is being sent and
\* the first turn's refresh is still in flight.
C18_Witness ==
  /\ last.op = "diagramResolved"
  /\ isLoading
  /\ issued.diagram = 2
  /\ Cardinality(PendingOf("diagram")) = 1
  /\ last.arg.text = "graph v2"
  /\ diagram = "graph v2"

\* C19: when a diagram response arrives right after the response to a
\* request issued later, it is shown all the same: #diagram holds the
\* response to the older request.
C19_OlderResponseShown ==
  (last.op = "diagramResolved" /\ last.arg.before > last.arg.n)
    => diagram = last.arg.text

\* Two diagram fetches were in flight at once; the one issued later resolved
\* with "graph v2", then the one issued earlier with "graph v1", which is
\* what the page shows.
C19_Witness ==
  /\ last.op = "diagramResolved"
  /\ last.arg.before > last.arg.n
  /\ last.arg.n > 0
  /\ last.arg.text = "graph v1"
  /\ diagram = "graph v1"
  /\ PendingOf("diagram") = {}

\* C20: once sessionId holds an id, no step changes it.
C20_SessionIdStable ==
  [][ sessionId # Null => sessionId' = sessionId ]_vars

\* A send has failed after a turn that was answered and refreshed the
\* diagram, and the id recorded at startup is still there.
C20_Witness ==
  /\ last.op = "sendRejected"
  /\ sessionId = "s1"
  /\ issued.send = 2
  /\ issued.diagram >= 2

\* Does the text d occur in the text s?
Contains(s, d) == \E i \in 1..(Len(s) - Len(d) + 1) : SubSeq(s, i, i + Len(d) - 1) = d

Count(s, token) == Cardinality({k \in 1..Len(s) : s[k] = token})

\* Is position p of the markup h between an opening tag and its closing tag?
InMarkup(h, p, open, close) ==
  /\ \E a \in 1..(p - 1) : h[a] = open /\ \A k \in (a + 1)..(p - 1) : h[k] # close
  /\ \E b \in (p + 1)..Len(h) : h[b] = close /\ \A k \in (p + 1)..(b - 1) : h[k] # open

\* c holds at i a double marker, a body of letters, and at j a double marker.
SpanAt(c, i, j) ==
  /\ j >= i + 2
  /\ j + 1 <= Len(c)
  /\ SubSeq(c, i, i + 1) = <<"*", "*">>
  /\ SubSeq(c, j, j + 1) = <<"*", "*">>
  /\ \A k \in (i + 2)..(j - 1) : c[k] = "x"

\* Every newline of c is a line break in h.
NewlinesAreBreaks(c, h) == Count(h, "\n") = 0 /\ Count(h, "<br>") = Count(c, "\n")

\* C14 (as claimed): whenever the text of a message holds a span **x** (x
\* letters, here all the letters of the text), the markup shown has every
\* letter of x inside the bold markup and none inside the italic markup, and
\* every newline is a line break.
C14_BoldNeverItalic ==
  \A m \in 1..Len(messagesArea) :
    LET c == messagesArea[m].content
        h == messagesArea[m].html
    IN messagesArea[m].type = "user" =>
         /\ NewlinesAreBreaks(c, h)
         /\ \A i, j \in 1..Len(c) :
              (SpanAt(c, i, j) /\ j >= i + 3 /\ Count(c, "x") = j - i - 2)
                => \A p \in 1..Len(h) :
                     h[p] = "x" => /\ InMarkup(h, p, "<strong>", "</strong>")
                                   /\ ~InMarkup(h, p, "<em>", "</em>")

\* C14 (amended): whenever the only asterisks of a message's text are the two
\* double markers of one span **x** (x letters), the markup shown holds x
\* between the bold tags and holds no italic tag; and in every message every
\* newline is a line break.
C14_BoldBeforeItalic ==
  \A m \in 1..Len(messagesArea) :
    LET c == messagesArea[m].content
        h == messagesArea[m].html
    IN messagesArea[m].type = "user" =>
         /\ NewlinesAreBreaks(c, h)
         /\ \A i, j \in 1..Len(c) :
              (SpanAt(c, i, j) /\ Count(c, "*") = 4)
                => /\ Contains(h, <<"<strong>">> \o SubSeq(c, i + 2, j - 1)
                                               \o <<"</strong>">>)
                   /\ Count(h, "<em>") = 0

\* The text **x**, a newline and a letter has been sent and is shown as x in
\* bold, a line break and the letter.
C14_Witness ==
  /\ Len(messagesArea) >= 2
  /\ messagesArea[2].type = "user"
  /\ messagesArea[2].content = <<"*", "*", "x", "*", "*", "\n", "x">>
  /\ messagesArea[2].html = <<"<strong>", "x", "</strong>", "<br>", "x">>

\* The messages of a history of the main page: its elements but the
\* placeholder.
Messages(area) == SelectSeq(area, LAMBDA m : m.type # "loading")

Placeholders(area) == Cardinality({k \in 1..Len(area) : area[k].type = "loading"})

IsPrefix(s, t) == Len(s) <= Len(t) /\ SubSeq(t, 1, Len(s)) = s

\* C21: #messagesArea holds one placeholder while isLoading is true and none
\* while it is false.
C21_PlaceholderIffSending ==
  Placeholders(messagesArea) = (IF isLoading THEN 1 ELSE 0)

\* The second turn is being sent: the placeholder of the first turn is gone
\* (its reply is shown) and that of the second is the one placeholder.
C21_Witness ==
  /\ isLoading
  /\ issued.send = 2
  /\ Placeholders(messagesArea) = 1
  /\ LastOf(messagesArea).type = "loading"
  /\ \E k \in 1..Len(messagesArea) :
       messagesArea[k].type = "bot" /\ messagesArea[k].content = <<"H", "i">>

\* C22 (as claimed): in the variant page at most one send is in flight.
C22_VariantSingleFlight ==
  page = "variant" => Cardinality({r \in pending : r.kind = "send"}) <= 1

\* C23 (as claimed): in the main page no step removes or reorders a message
\* of the history, and the user messages outnumber the assistant's replies
\* (the greeting left out) by one while isLoading is true and by none while
\* it is false.
C23_HistoryBalanced ==
  [][ page = "main" =>
        /\ IsPrefix(Messages(messagesArea), Messages(messagesArea'))
        /\ Cardinality({k \in 1..Len(messagesArea') :
                          messagesArea'[k].type = "user"})
             - Cardinality({k \in 1..Len(messagesArea') :
                             /\ messagesArea'[k].type = "bot"
                             /\ messagesArea'[k].content
                                  # <<"Hello! Ask me anything.">>})
             = (IF isLoading' THEN 1 ELSE 0)
    ]_vars

\* C24 (as claimed): over a network whose every call resolves, once no call
\* is in flight any more the main page is not loading and every submission
\* taken has been followed by its assistant message: the replies in the
\* history (the greeting left out) number the sends issued.
C24_SettledTurnsAnswered ==
  (page = "main" /\ pending = {} /\ issued.send > 0)
    => /\ ~isLoading
       /\ Cardinality({k \in 1..Len(messagesArea) :
                        /\ messagesArea[k].type = "bot"
                        /\ messagesArea[k].content # <<"Hello! Ask me anything.">>})
            = issued.send

\* C25 (as claimed): when the step after a reset of one kind is the end of a
\* file read (of an upload begun before the reset, then), the reference of
\* the kind reset is still empty, in memory and in storage.
C25_ResetNotUndone ==
  [][ (last.op = "reset" /\ last'.op = "readLoaded")
        => IF last.arg.s = <<"user">>
           THEN /\ customImages'.userAvatar = "<null>"
                /\ ParseImages(localStorage'.chatCustomImages).userAvatar = "<null>"
           ELSE /\ customImages'.botAvatar = "<null>"
                /\ ParseImages(localStorage'.chatCustomImages).botAvatar = "<null>"
    ]_vars

\* C26: a settings handler (upload, end of a read, reset, toggle) leaves the
\* session id, isLoading, both histories, the input, the diagram and the
\* fetches as they were; the end of a read and a reset leave the theme and
\* the other kind's reference as they were; toggleTheme leaves both
\* references as they were; and a step of the conversation (typing, a
\* submission, a response or a failure of a fetch) leaves the settings in
\* memory and in storage as they were and does not call saveSettings.
C26_NoInterference ==
  [][ /\ last'.op \in {"upload", "readLoaded", "readFailed", "reset", "toggleTheme"}
           => UNCHANGED <<sessionId, isLoading, messagesArea, chat, input,
                          diagram, issued, pending>>
      /\ last'.op \in {"readLoaded", "reset"}
           => /\ isDarkMode' = isDarkMode
              /\ IF last'.arg.s = <<"user">>
                 THEN customImages'.botAvatar = customImages.botAvatar
                 ELSE customImages'.userAvatar = customImages.userAvatar
      /\ last'.op = "toggleTheme" => customImages' = customImages
      /\ last'.op \in {"input", "onSend", "submit", "sessionResolved",
                        "diagramResolved", "sendResolved", "sessionRejected",
                        "diagramRejected", "sendRejected"}
           => /\ UNCHANGED <<customImages, isDarkMode, localStorage>>
              /\ ~last'.saved
    ]_vars

\* The user avatar has just been reset while a send is in flight: the bot
\* avatar uploaded before and the light theme toggled to are still there,
\* and the page is still loading with its session.
C26_Witness ==
  /\ last.op = "reset"
  /\ last.arg = Str(<<"user">>)
  /\ isLoading
  /\ sessionId # Null
  /\ PendingOf("send") # {}
  /\ customImages.botAvatar = "data:small.png"
  /\ ~isDarkMode

====
